---- MODULE Spec2Model ----
(***************************************************************************)
(* Model of the pan expansion of croppan.py: PanSpec() and the generator   *)
(* expand_pans(names, pans); of the crop strings of utils.py: cropargv(s)  *)
(* and computecrop(cspec, img); and of the loader gen_panspecs(s).         *)
(*                                                                         *)
(* Three specifications share the module: Spec runs expand_pans, CropSpec  *)
(* parses and resolves one crop string, LoaderSpec loads one source. The   *)
(* variables of the processes a specification does not run stay idle.      *)
(*                                                                         *)
(* The generator is a process whose position is pc:                        *)
(*   "start"  before the first next(): nothing has run yet                 *)
(*   "head"   at the top of  for fnum, fname in enumerate(names)           *)
(*   "emit"   at the top of  for k in range(reps)                          *)
(*   "done"   the generator is exhausted                                   *)
(*   "error"  an exception left the generator (err names it)               *)
(*                                                                         *)
(* curbox and deltas are Python floats once a division has happened; they  *)
(* are modelled as exact rationals <<numerator, denominator>> in lowest    *)
(* terms, and int() as truncation toward zero.                             *)
(*                                                                         *)
(* The inputs are the lists of the first m dummy names of cptest.py, the   *)
(* same lists coming back to their first image (a name that occurs twice), *)
(* and the waypoint lists PanSpec() builds from these names, from None and *)
(* from three boxes, one of them with negative coordinates.                *)
(***************************************************************************)
EXTENDS Integers, Sequences, FiniteSets, TLC

VARIABLES names, pans, px, pc, fnum, p, reps, curbox, deltas, k,
          next_at, nf, out, err, armed, settled

\* cropargv / computecrop: the tokens of the crop string, the image, the
\* terms, the resolved crop, the exception raised and the position
VARIABLES toks, img, cspec, crop, cerr, cpc

\* gen_panspecs: the source, the field maps still to come, the PanSpecs
\* yielded, the exception raised and the position
VARIABLES source, todo, yielded, lerr, lpc

cvars == <<toks, img, cspec, crop, cerr, cpc>>

lvars == <<source, todo, yielded, lerr, lpc>>

vars == <<names, pans, px, pc, fnum, p, reps, curbox, deltas, k,
          next_at, nf, out, err, armed, settled,
          toks, img, cspec, crop, cerr, cpc,
          source, todo, yielded, lerr, lpc>>

----------------------------------------------------------------------------
(* Bounds of the model *)

MaxImages == 3
MaxPans == 2
MaxN == 2

----------------------------------------------------------------------------
(* Values *)

\* Python's None where an image name is expected
None == "None"

\* Python's None where a crop box is expected
NoneCrop == <<"None">>

\* a local variable that has not been assigned yet
Unbound == <<"unbound">>

\* Python's None where an image is expected
NoImage == <<"None">>

\* Python's None where an integer is expected; the integer v is <<v>>
NoneInt == <<>>

i4 == 1..4

\* the dummy image names DN of the tests
DN == [i \in 1..MaxImages |-> "F" \o ToString(i - 1)]

crop_A == <<0, 10, 200, 210>>
crop_B == <<2, 13, 195, 211>>
crop_N == <<-3, -7, 4, 5>>

Boxes == {crop_A, crop_B, crop_N}

----------------------------------------------------------------------------
(* Exact rational arithmetic for the float values of curbox and deltas *)

Abs(x) == IF x < 0 THEN -x ELSE x

RECURSIVE GCD(_, _)
GCD(a, b) == IF b = 0 THEN a ELSE GCD(b, a % b)

\* the rational n/d in lowest terms with a positive denominator (d # 0)
Rat(n, d) ==
    LET s == IF d < 0 THEN -1 ELSE 1
        g == GCD(Abs(n), Abs(d))
    IN  <<(s * n) \div g, (s * d) \div g>>

RAdd(x, y) == Rat(x[1] * y[2] + y[1] * x[2], x[2] * y[2])

RSub(x, y) == Rat(x[1] * y[2] - y[1] * x[2], x[2] * y[2])

\* x / d for an integer d # 0
RDiv(x, d) == Rat(x[1], x[2] * d)

\* an integer box as a box of rationals
RBox(box) == [i \in i4 |-> <<box[i], 1>>]

Zero4 == [i \in i4 |-> <<0, 1>>]

\* Python's int(x): truncation toward zero
PyInt(x) ==
    IF x[1] >= 0 THEN x[1] \div x[2] ELSE -((-x[1]) \div x[2])

\* int(v + 0.5)
RoundCoord(v) == PyInt(RAdd(v, <<1, 2>>))

----------------------------------------------------------------------------
(* PanSpec *)

\* Python truthiness of an image name and of a crop box
TruthyName(x) == x # None /\ x # ""

TruthyCrop(x) == x # NoneCrop /\ x # <<>>

PanSpec(image0, crop0, image1, crop1, n) ==
    [image0 |-> image0,
     crop0  |-> crop0,
     image1 |-> IF TruthyName(image1) THEN image1 ELSE image0,
     crop1  |-> IF TruthyCrop(crop1) THEN crop1 ELSE crop0,
     n      |-> n]

\* the value of p before any waypoint was popped
NoPan == [image0 |-> None, crop0 |-> NoneCrop,
          image1 |-> None, crop1 |-> NoneCrop, n |-> 0]

----------------------------------------------------------------------------
(* Inputs *)

ImageNames == {DN[i] : i \in 1..MaxImages}

Waypoints ==
    {PanSpec(i0, c0, i1, c1, n) :
        i0 \in ImageNames, c0 \in Boxes \cup {NoneCrop},
        i1 \in ImageNames \cup {None}, c1 \in Boxes \cup {NoneCrop},
        n \in 1..MaxN}

\* the first m dummy names, and the same list coming back to its first image
NameLists ==
    {SubSeq(DN, 1, m) : m \in 0..MaxImages}
        \cup {Append(SubSeq(DN, 1, m), DN[1]) : m \in 1..(MaxImages - 1)}

PanLists == UNION {[1..m -> Waypoints] : m \in 0..MaxPans}

----------------------------------------------------------------------------
(* list helpers *)

Has(seq, x) == \E j \in 1..Len(seq) : seq[j] = x

\* list.index(x), 0-based; only used when Has(seq, x)
index(seq, x) ==
    (CHOOSE j \in 1..Len(seq) :
        seq[j] = x /\ \A m \in 1..(j - 1) : seq[m] # x) - 1

\* (variant of fname: the image after the one under iteration, if any)
fname_next == names[IF fnum + 2 <= Len(names) THEN fnum + 2 ELSE fnum + 1]

fname == names[fnum + 1]

----------------------------------------------------------------------------
(* The processes a specification does not run *)

CropIdle ==
    /\ toks = <<>>
    /\ img = NoImage
    /\ cspec = Unbound
    /\ crop = Unbound
    /\ cerr = ""
    /\ cpc = "idle"

LoaderIdle ==
    /\ source = <<>>
    /\ todo = <<>>
    /\ yielded = <<>>
    /\ lerr = ""
    /\ lpc = "idle"

----------------------------------------------------------------------------
(* The generator *)

Init ==
    /\ names \in NameLists
    /\ pans \in PanLists
    /\ px = <<>>
    /\ pc = "start"
    /\ fnum = 0
    /\ p = NoPan
    /\ reps = 0
    /\ curbox = Unbound
    /\ deltas = Unbound
    /\ k = 0
    /\ next_at = -1
    /\ nf = 0
    /\ out = <<>>
    /\ err = ""
    /\ armed = <<>>
    /\ settled = <<>>
    /\ CropIdle
    /\ LoaderIdle

Raise(e) ==
    /\ pc' = "error"
    /\ err' = e

\* (variant of Normalised: no closing waypoint is appended)
Normalised_noclose ==
    IF pans[1].image0 # names[1]
    THEN <<PanSpec(names[1], pans[1].crop0, None, NoneCrop, 1)>> \o pans
    ELSE pans

\* px after the two normalisation steps
Normalised ==
    LET lead == IF pans[1].image0 # names[1]
                THEN <<PanSpec(names[1], pans[1].crop0, None, NoneCrop, 1)>>
                     \o pans
                ELSE pans
    IN  Append(lead,
               PanSpec(None, lead[Len(lead)].crop1, None, NoneCrop, 1))

\* first next(): copy and normalise the waypoint list, enter the loop
Setup ==
    /\ pc = "start"
    /\ IF pans = <<>> \/ names = <<>>
       THEN /\ Raise("IndexError")
            /\ UNCHANGED px
       ELSE /\ px' = Normalised
            /\ pc' = "head"
            /\ UNCHANGED err
    /\ UNCHANGED <<names, pans, fnum, p, reps, curbox, deltas, k,
                   next_at, nf, out, armed, settled>>
    /\ UNCHANGED <<cvars, lvars>>

\* (variant of ArmBox: curbox starts as the zero box instead of unassigned)
ArmBox_zero(w) ==
    IF w.crop0 # NoneCrop THEN RBox(w.crop0)
    ELSE IF curbox = Unbound THEN Zero4 ELSE curbox

\* curbox once the popped waypoint w has been looked at
ArmBox(w) == IF w.crop0 # NoneCrop THEN RBox(w.crop0) ELSE curbox

\* nf for the popped waypoint w
ArmNf(w) == (index(names, w.image1) - fnum + 1) * w.n

\* ArmNf is only evaluated when the target is found
\* (variant of NoDeltas: the single-step test compares nf with 0)
NoDeltas_nf0(w) == ~Has(names, w.image1) \/ ArmNf(w) = 0

\* the deltas of w are [0, 0, 0, 0] and nothing is divided
NoDeltas(w) == ~Has(names, w.image1) \/ ArmNf(w) = 1

\* the exception raised while the deltas of w are computed, "" if none
ArmError(w) ==
    IF NoDeltas(w) THEN ""
    ELSE IF w.crop1 = NoneCrop THEN "TypeError"
    ELSE IF ArmBox(w) = Unbound THEN "NameError"
    ELSE IF ArmNf(w) - 1 = 0 THEN "ZeroDivisionError"
    ELSE ""

\* the deltas for the popped waypoint w (when no exception is raised)
ArmDeltas(w) ==
    IF NoDeltas(w) THEN Zero4
    ELSE [i \in i4 |->
            RDiv(RSub(<<w.crop1[i], 1>>, ArmBox(w)[i]), ArmNf(w) - 1)]

\* the image under iteration is the image0 of the head of px
Arm ==
    /\ pc = "head"
    /\ fnum < Len(names)
    /\ fname = px[1].image0
    /\ LET w == px[1] IN
       /\ p' = w
       /\ px' = Tail(px)
       /\ reps' = w.n
       /\ curbox' = ArmBox(w)
       /\ IF Has(names, w.image1)
          THEN next_at' = index(names, w.image1) /\ nf' = ArmNf(w)
          ELSE UNCHANGED <<next_at, nf>>
       /\ IF ArmError(w) # ""
          THEN /\ Raise(ArmError(w))
               /\ UNCHANGED <<deltas, k, armed>>
          ELSE /\ deltas' = ArmDeltas(w)
               /\ k' = 0
               /\ pc' = "emit"
               /\ armed' = Append(armed, [w |-> w, at |-> fnum,
                                          from |-> ArmBox(w),
                                          frame |-> Len(out) + 1])
               /\ UNCHANGED err
    /\ UNCHANGED <<names, pans, fnum, out, settled>>
    /\ UNCHANGED <<cvars, lvars>>

\* the image under iteration is not the image0 of the head of px
Skip ==
    /\ pc = "head"
    /\ fnum < Len(names)
    /\ fname # px[1].image0
    /\ pc' = "emit"
    /\ k' = 0
    /\ UNCHANGED <<names, pans, px, fnum, p, reps, curbox, deltas,
                   next_at, nf, out, err, armed, settled>>
    /\ UNCHANGED <<cvars, lvars>>

\* (variant of MoreReps: range(reps - 1))
MoreReps_short == k < reps - 1

\* for k in range(reps): another pass is due
MoreReps == k < reps

\* (variant of Settles: the test names image0)
Settles_image0 == fname = p.image0

\* the image under iteration is the target of the active waypoint
Settles == fname = p.image1

roundedbox == [i \in i4 |-> RoundCoord(curbox[i])]

\* one pass of  for k in range(reps)
Emit ==
    /\ pc = "emit"
    /\ MoreReps
    /\ IF curbox = Unbound
       THEN /\ Raise("NameError")
            /\ UNCHANGED <<out, curbox, k>>
       ELSE /\ out' = Append(out, [name |-> fname, box |-> roundedbox])
            /\ curbox' = [i \in i4 |-> RAdd(curbox[i], deltas[i])]
            /\ k' = k + 1
            /\ UNCHANGED <<pc, err>>
    /\ UNCHANGED <<names, pans, px, fnum, p, reps, deltas,
                   next_at, nf, armed, settled>>
    /\ UNCHANGED <<cvars, lvars>>

\* (variant of EndImage: reps is not reset when the waypoint settles)
EndImage_noreset ==
    /\ pc = "emit"
    /\ ~MoreReps
    /\ IF Settles
       THEN /\ deltas' = Zero4
            /\ curbox' = IF p.crop1 # NoneCrop THEN RBox(p.crop1) ELSE curbox
            /\ settled' = Append(settled, [at |-> fnum, frame |-> Len(out)])
            /\ UNCHANGED reps
       ELSE UNCHANGED <<deltas, reps, curbox, settled>>
    /\ fnum' = fnum + 1
    /\ pc' = "head"
    /\ UNCHANGED <<names, pans, px, p, k, next_at, nf, out, err, armed>>
    /\ UNCHANGED <<cvars, lvars>>

\* after the repeats of an image: settle if it is the target of p
EndImage ==
    /\ pc = "emit"
    /\ ~MoreReps
    /\ IF Settles
       THEN /\ deltas' = Zero4
            /\ reps' = 1
            /\ curbox' = IF p.crop1 # NoneCrop THEN RBox(p.crop1) ELSE curbox
            /\ settled' = Append(settled, [at |-> fnum, frame |-> Len(out)])
       ELSE UNCHANGED <<deltas, reps, curbox, settled>>
    /\ fnum' = fnum + 1
    /\ pc' = "head"
    /\ UNCHANGED <<names, pans, px, p, k, next_at, nf, out, err, armed>>
    /\ UNCHANGED <<cvars, lvars>>

\* the images are exhausted
Finish ==
    /\ pc = "head"
    /\ fnum = Len(names)
    /\ pc' = "done"
    /\ UNCHANGED <<names, pans, px, fnum, p, reps, curbox, deltas, k,
                   next_at, nf, out, err, armed, settled>>
    /\ UNCHANGED <<cvars, lvars>>

Next ==
    \/ Setup
    \/ Arm
    \/ Skip
    \/ Emit
    \/ EndImage
    \/ Finish

Spec == Init /\ [][Next]_vars

----------------------------------------------------------------------------
(* Helpers of the properties *)

Min(a, b) == IF a < b THEN a ELSE b

RECURSIVE SumSeq(_)
SumSeq(seq) == IF seq = <<>> THEN 0 ELSE Head(seq) + SumSeq(Tail(seq))

\* 0-based position of the first occurrence of x in seq at or after
\* the 0-based position a, or -1
FirstFrom(seq, x, a) ==
    IF \E j \in (a + 1)..Len(seq) : seq[j] = x
    THEN (CHOOSE j \in (a + 1)..Len(seq) :
            seq[j] = x /\ \A m \in (a + 1)..(j - 1) : seq[m] # x) - 1
    ELSE -1

\* the last image (0-based) iterated under the t-th armed waypoint before
\* it settles, is replaced by the next armed waypoint, or the images end
SegEnd(t) ==
    LET e == armed[t]
        b == FirstFrom(names, e.w.image1, e.at)
        byArm == IF t < Len(armed) THEN armed[t + 1].at - 1
                 ELSE Len(names) - 1
    IN  IF b = -1 THEN byArm ELSE Min(b, byArm)

\* the images iterated under the t-th armed waypoint before it settles
Spanned(t) == SegEnd(t) - armed[t].at + 1

\* ids is a non-empty prefix of imgs with every image replaced by a
\* non-empty run of itself, or ids is empty
RECURSIVE RunsMatch(_, _)
RunsMatch(ids, imgs) ==
    IF ids = <<>> THEN TRUE
    ELSE IF imgs = <<>> THEN FALSE
    ELSE /\ Head(ids) = Head(imgs)
         /\ \/ RunsMatch(Tail(ids), imgs)
            \/ RunsMatch(Tail(ids), Tail(imgs))

\* ids is imgs with every image replaced by a non-empty run of itself
RECURSIVE IsRunExpansion(_, _)
IsRunExpansion(ids, imgs) ==
    IF imgs = <<>> THEN ids = <<>>
    ELSE /\ ids # <<>>
         /\ Head(ids) = Head(imgs)
         /\ \/ IsRunExpansion(Tail(ids), Tail(imgs))
            \/ IsRunExpansion(Tail(ids), imgs)

OutNames == [f \in 1..Len(out) |-> out[f].name]

\* the integer b is a nearest integer of the rational v
Nearest(b, v) == 2 * Abs(b * v[2] - v[1]) <= v[2]

\* the value a linear interpolation from the rational s to the integer t
\* has at step j of steps - 1 increments (s itself when steps = 1)
Lerp(s, t, j, steps) ==
    IF steps = 1 THEN s
    ELSE RAdd(s, RDiv(Rat((t * s[2] - s[1]) * j, s[2]), steps - 1))

\* the steps of the t-th armed waypoint, whose image1 is in names
Steps(t) ==
    (index(names, armed[t].w.image1) - armed[t].at + 1) * armed[t].w.n

\* the t-th armed waypoint started from a known box, has a crop1 and an
\* image1 at or after its image0, and no other waypoint was armed up to
\* and including image1
Undisturbed(t) ==
    LET e == armed[t] IN
    /\ e.from # Unbound
    /\ e.w.crop1 # NoneCrop
    /\ Has(names, e.w.image1)
    /\ index(names, e.w.image1) >= e.at
    /\ t < Len(armed) => armed[t + 1].at > index(names, e.w.image1)

\* all the frames of the segment of the t-th armed waypoint are out
SegmentOut(t) == Len(out) >= armed[t].frame + Steps(t) - 1

\* the last frame emitted before the next waypoint after the t-th is armed
LastFrameOf(t) ==
    IF t < Len(armed) THEN armed[t + 1].frame - 1 ELSE Len(out)

----------------------------------------------------------------------------
(* C1 *)

\* C1 as stated: when expand_pans has finished, the number of frames is
\* len(images) plus the sum of n - 1 over the waypoints with n > 1
\* (stated for the runs in which every waypoint of the list was armed and
\* reached its image1 before the next one was armed).
C1_FrameCountLaw ==
    (/\ pc = "done"
     /\ Len(px) = 1
     /\ \A t \in 1..Len(armed) :
           LET b == FirstFrom(names, armed[t].w.image1, armed[t].at) IN
           b # -1 /\ (t < Len(armed) => b < armed[t + 1].at)) =>
        Len(out) = Len(names)
                   + SumSeq([t \in 1..Len(pans) |-> pans[t].n - 1])

\* C1 amended: when expand_pans has finished, the number of frames is
\* len(images) plus, for every waypoint that was armed, n - 1 times the
\* number of images iterated from its image0 up to the first of: its image1,
\* the image before the next armed waypoint, the last image.
C1_FrameCount ==
    pc = "done" =>
        Len(out) = Len(names)
                   + SumSeq([t \in 1..Len(armed) |->
                                (armed[t].w.n - 1) * Spanned(t)])

\* a finished run with a repeating waypoint that spans several images
C1_Witness ==
    /\ pc = "done"
    /\ \E t \in 1..Len(armed) : armed[t].w.n > 1 /\ Spanned(t) > 1

----------------------------------------------------------------------------
(* C2 *)

\* C2: the names of the frames emitted so far are the images iterated so
\* far, in order, each replaced by one non-empty run of itself (the run of
\* the image under iteration may still be growing or empty); when
\* expand_pans has finished every image has its run.
C2_OrderedRuns ==
    /\ pc \in {"head", "done"} =>
           IsRunExpansion(OutNames, SubSeq(names, 1, fnum))
    /\ pc = "emit" =>
           \/ IsRunExpansion(OutNames, SubSeq(names, 1, fnum + 1))
           \/ k = 0 /\ IsRunExpansion(OutNames, SubSeq(names, 1, fnum))
    /\ pc = "error" => RunsMatch(OutNames, names)
    /\ pc = "done" => fnum = Len(names)

\* a finished run over several images, one of them repeated
C2_Witness ==
    /\ pc = "done"
    /\ Len(names) = MaxImages
    /\ Len(out) > Len(names)
    /\ Len(armed) > 1

----------------------------------------------------------------------------
(* C3 *)

\* C3: in a segment armed at image a with start box S whose image1 is at
\* b >= a with target T, no other waypoint armed in between, the k-th frame
\* (k = 0 .. steps-1, steps = (b-a+1)*n) has on every axis the value
\* S + k*(T-S)/(steps-1) rounded to a nearest integer.
C3_LinearInterpolation ==
    \A t \in 1..Len(armed) :
        (Undisturbed(t) /\ SegmentOut(t)) =>
            \A j \in 0..(Steps(t) - 1) : \A i \in i4 :
                Nearest(out[armed[t].frame + j].box[i],
                        Lerp(armed[t].from[i], armed[t].w.crop1[i],
                             j, Steps(t)))

----------------------------------------------------------------------------
(* C4 *)

\* C4: in every interpolated segment (two steps or more) whose image1 is at
\* or after its image0, the last frame of the segment is a frame of image1
\* and its box is crop1 exactly, on all four axes.
C4_Snapping ==
    \A t \in 1..Len(armed) :
        (Undisturbed(t) /\ SegmentOut(t) /\ Steps(t) >= 2) =>
            LET last == out[armed[t].frame + Steps(t) - 1] IN
            /\ last.name = armed[t].w.image1
            /\ last.box = armed[t].w.crop1

----------------------------------------------------------------------------
(* C5 *)

\* the waypoint armed before the t-th settled at its image1, with a crop1,
\* before the t-th was armed
SettledBefore(t) ==
    /\ t > 1
    /\ armed[t - 1].w.crop1 # NoneCrop
    /\ \E u \in 1..Len(settled) :
          armed[t - 1].at <= settled[u].at /\ settled[u].at < armed[t].at

\* C5: a waypoint with crop0 = None armed after the previous waypoint has
\* settled with crop1 = C starts from C: its first frame has box exactly C
\* and its deltas lead from C to its crop1 in nf - 1 steps.
C5_Inheritance ==
    \A t \in 1..Len(armed) :
        (armed[t].w.crop0 = NoneCrop /\ SettledBefore(t)) =>
            LET C == armed[t - 1].w.crop1
                w == armed[t].w
            IN  /\ armed[t].from = RBox(C)
                /\ Len(out) >= armed[t].frame =>
                       out[armed[t].frame].box = C
                /\ (/\ t = Len(armed) /\ pc = "emit" /\ k = 0
                    /\ armed[t].at = fnum
                    /\ Has(names, w.image1) /\ nf # 1) =>
                       \A i \in i4 :
                           deltas[i] = RDiv(<<w.crop1[i] - C[i], 1>>, nf - 1)

----------------------------------------------------------------------------
(* C6 *)

\* every waypoint of the list has n = 1, was armed, and the last one was
\* armed at or before its image1
HoldsCase ==
    /\ pc = "done"
    /\ \A t \in 1..Len(pans) : pans[t].n = 1
    /\ Len(px) = 1
    /\ pans[1].crop0 # NoneCrop
    /\ pans[Len(pans)].crop1 # NoneCrop
    /\ Has(names, pans[Len(pans)].image1)
    /\ index(names, pans[Len(pans)].image1) >= armed[Len(armed)].at

\* C6: with all n = 1, every image up to the first waypoint's image0 is
\* emitted once with that waypoint's crop0, every image from the last
\* waypoint's image1 on is emitted once with that waypoint's crop1 (the
\* image1 itself when the segment has moved or had nothing to move), and
\* there are len(images) frames; a single hold waypoint gives crop0 on
\* every frame.
C6_LeadingTrailingHolds ==
    HoldsCase =>
        LET first == pans[1]
            last == pans[Len(pans)]
            a == index(names, first.image0)
            b == index(names, last.image1)
        IN  /\ Len(out) = Len(names)
            /\ \A j \in 0..a :
                   out[j + 1] = [name |-> names[j + 1], box |-> first.crop0]
            /\ \A j \in b..(Len(names) - 1) :
                   (j > b \/ armed[Len(armed)].at < b
                          \/ last.crop0 = last.crop1) =>
                       out[j + 1] = [name |-> names[j + 1],
                                     box |-> last.crop1]
            /\ (Len(pans) = 1 /\ first.image1 = first.image0
                              /\ first.crop1 = first.crop0) =>
                   \A f \in 1..Len(out) : out[f].box = first.crop0

----------------------------------------------------------------------------
(* C7 *)

\* the t-th armed waypoint is of the single-image repeat form, and its
\* n frames are out
RepeatForm(t) ==
    LET e == armed[t] IN
    /\ e.w.image1 = e.w.image0
    /\ e.w.n > 1
    /\ e.w.crop0 # NoneCrop
    /\ index(names, e.w.image0) = e.at
    /\ Len(out) >= e.frame + e.w.n - 1

\* C7: a waypoint with image1 = image0 and n > 1 emits its image n times in
\* a row, from crop0 on the first frame to crop1 on the n-th in equal
\* steps; after it every image is emitted once with crop1 until another
\* waypoint is armed.
C7_SingleImageRepeat ==
    \A t \in 1..Len(armed) :
        RepeatForm(t) =>
            LET e == armed[t]
                w == e.w
            IN  /\ \A j \in 0..(w.n - 1) :
                       /\ out[e.frame + j].name = w.image0
                       /\ \A i \in i4 :
                              Nearest(out[e.frame + j].box[i],
                                      Lerp(<<w.crop0[i], 1>>, w.crop1[i],
                                           j, w.n))
                /\ out[e.frame].box = w.crop0
                /\ out[e.frame + w.n - 1].box = w.crop1
                /\ \A f \in (e.frame + w.n)..LastFrameOf(t) :
                       /\ out[f].name = names[e.at + 1 + (f - (e.frame + w.n - 1))]
                       /\ out[f].box = w.crop1

----------------------------------------------------------------------------
(* C8 *)

\* C8: a segment whose crop0 and crop1 are the same box A emits A at every
\* frame, whatever the sign of the coordinates of A.
C8_RoundTrip ==
    \A t \in 1..Len(armed) :
        (armed[t].w.crop0 # NoneCrop /\ armed[t].w.crop1 = armed[t].w.crop0) =>
            \A f \in armed[t].frame..LastFrameOf(t) :
                out[f].box = armed[t].w.crop0

----------------------------------------------------------------------------
(* C9 *)

\* an exception was raised while the waypoint popped last was being armed
ArmFailed ==
    /\ pc = "error"
    /\ px # <<>>
    /\ Len(Normalised) - Len(px) = Len(armed) + 1

\* the waypoint popped last has no image1 at or after its image0
OpenEnded(at) == FirstFrom(names, p.image1, at) = -1

\* C9: a waypoint armed at image i whose image1 does not occur at i or
\* later raises no error while it is armed, gets zero deltas, and every
\* frame until the next waypoint is armed has the box, as emitted, that
\* was current when it was armed.
C9_OpenEnded ==
    /\ ~(ArmFailed /\ OpenEnded(fnum))
    /\ (armed # <<>> /\ OpenEnded(armed[Len(armed)].at)) =>
           LET e == armed[Len(armed)] IN
           /\ deltas = Zero4
           /\ e.from # Unbound =>
                  \A f \in e.frame..Len(out) :
                      out[f].box = [i \in i4 |-> RoundCoord(e.from[i])]

----------------------------------------------------------------------------
(* C3 to C8 away from the rounding of negative values *)

\* no box of the waypoint list and no box a waypoint started from has a
\* negative coordinate
NonNegative ==
    /\ \A t \in 1..Len(pans) :
           pans[t].crop0 # crop_N /\ pans[t].crop1 # crop_N
    /\ \A t \in 1..Len(armed) :
           armed[t].from # Unbound =>
               \A i \in i4 : armed[t].from[i][1] >= 0

\* C3, C4, C5, C6, C7 and C8 hold of the runs without negative coordinates
NonNegative_C3 == NonNegative => C3_LinearInterpolation

NonNegative_C4 == NonNegative => C4_Snapping

NonNegative_C5 == NonNegative => C5_Inheritance

NonNegative_C6 == NonNegative => C6_LeadingTrailingHolds

NonNegative_C7 == NonNegative => C7_SingleImageRepeat

NonNegative_C8 == NonNegative => C8_RoundTrip

----------------------------------------------------------------------------
(* C10 *)

\* C10: no ZeroDivisionError is ever raised, and while the waypoint armed
\* last has nf = 1 all four deltas are zero.
C10_NoZeroDivide ==
    /\ err # "ZeroDivisionError"
    /\ (armed # <<>> /\ pc \in {"head", "emit", "done"}
        /\ Has(names, p.image1) /\ nf = 1) => deltas = Zero4

\* a waypoint was just armed with nf = 1 although its crop1 differs from
\* the current box, after an earlier one whose deltas were divided
C10_Witness ==
    /\ pc = "emit" /\ k = 0
    /\ Len(armed) > 1
    /\ armed[Len(armed)].at = fnum
    /\ Has(names, p.image1) /\ nf = 1
    /\ p.crop1 # NoneCrop /\ curbox # RBox(p.crop1)
    /\ \E t \in 1..(Len(armed) - 1) :
          LET w == armed[t].w IN
          /\ Has(names, w.image1) /\ w.crop1 # NoneCrop
          /\ (index(names, w.image1) - armed[t].at + 1) * w.n # 1

----------------------------------------------------------------------------
(* C11 *)

\* C11: when the first waypoint of the list has crop0 = None, whatever its
\* image0, image1, crop1 and n, no frame is ever emitted, the generator never
\* gets past the first image with curbox still unassigned, and it never
\* finishes: the first next() ends in an error.
C11_FirstCropNone ==
    (pans # <<>> /\ pans[1].crop0 = NoneCrop) =>
        /\ out = <<>>
        /\ curbox = Unbound
        /\ pc # "done"
        /\ pc \in {"head", "emit"} => (fnum = 0 /\ k = 0)
        /\ pc = "emit" => MoreReps
        /\ pc = "error" => err \in {"NameError", "TypeError", "IndexError"}

\* the first next() has raised for a first waypoint with crop0 = None on an
\* image that is not the first, with a crop1, a repeat and an image1
C11_Witness ==
    /\ pc = "error" /\ err = "NameError"
    /\ Len(pans) = MaxPans
    /\ pans[1].crop0 = NoneCrop
    /\ pans[1].crop1 # NoneCrop
    /\ pans[1].image0 # names[1]
    /\ pans[1].image1 # pans[1].image0
    /\ pans[1].n > 1

----------------------------------------------------------------------------
(* Python strings: a str is the sequence of its characters *)

Digit == <<"0", "1", "2", "3", "4", "5", "6", "7", "8", "9">>

IsDigit(c) == \E d \in 1..10 : Digit[d] = c

DigitValue(c) == (CHOOSE d \in 1..10 : Digit[d] = c) - 1

\* str.strip()
RECURSIVE lstrip(_)
lstrip(t) == IF t # <<>> /\ Head(t) = " " THEN lstrip(Tail(t)) ELSE t

RECURSIVE rstrip(_)
rstrip(t) ==
    IF t # <<>> /\ t[Len(t)] = " "
    THEN rstrip(SubSeq(t, 1, Len(t) - 1)) ELSE t

strip(t) == rstrip(lstrip(t))

\* str.split(sep): the text of t between the occurrences of sep
RECURSIVE split(_, _)
split(t, sep) ==
    IF \E j \in 1..Len(t) : t[j] = sep
    THEN LET j == CHOOSE j \in 1..Len(t) :
                      t[j] = sep /\ \A m \in 1..(j - 1) : t[m] # sep
         IN  <<SubSeq(t, 1, j - 1)>> \o split(SubSeq(t, j + 1, Len(t)), sep)
    ELSE <<t>>

\* the value of a string of digits
RECURSIVE DigitsValue(_)
DigitsValue(t) ==
    IF t = <<>> THEN 0
    ELSE DigitsValue(SubSeq(t, 1, Len(t) - 1)) * 10 + DigitValue(t[Len(t)])

\* the part of the text t that int() takes as digits
Unsigned(t) ==
    LET u == strip(t)
    IN  IF u # <<>> /\ u[1] \in {"+", "-"} THEN Tail(u) ELSE u

\* int(t) of a str raises ValueError unless t is, between whitespace, an
\* optional sign and one digit or more
IntOK(t) ==
    /\ Unsigned(t) # <<>>
    /\ \A j \in 1..Len(Unsigned(t)) : IsDigit(Unsigned(t)[j])

\* int(t) of a str t with IntOK(t)
int(t) ==
    IF strip(t)[1] = "-" THEN -DigitsValue(Unsigned(t))
    ELSE DigitsValue(Unsigned(t))

----------------------------------------------------------------------------
(* Coordinate terms, cropargv and computecrop *)

\* a call that raised the exception e, and a call that returned v
Raised(e) == [err |-> e, val |-> <<>>]

Returned(v) == [err |-> "", val |-> v]

\* the first exception raised by the calls of seq, "" if none
FirstError(seq) ==
    IF \E j \in 1..Len(seq) : seq[j].err # ""
    THEN seq[CHOOSE j \in 1..Len(seq) :
                seq[j].err # "" /\ \A m \in 1..(j - 1) : seq[m].err = ""].err
    ELSE ""

\* the lambda a token is parsed to: its form, and the r or the s it captures
Lambda(form, r, s) == [form |-> form, r |-> r, s |-> s]

\* _parseNRS(s)
_parseNRS(s0) ==
    LET s == strip(s0) IN
    IF s = <<>> THEN Raised("IndexError")
    ELSE IF s[1] \in {"R", "r", "+", "-"}
    THEN LET t == IF s[1] \in {"R", "r"} THEN Tail(s) ELSE s IN
         IF ~IntOK(t) THEN Raised("ValueError")
         ELSE IF int(t) > 0 THEN Returned(Lambda("0 + r", int(t), <<>>))
         ELSE IF int(t) = 0
              THEN Returned(Lambda("0 if u is None else z", 0, <<>>))
         ELSE Returned(Lambda("z + r", int(t), <<>>))
    ELSE IF s[1] \in {"S", "s"}
    THEN IF ~IntOK(Tail(s)) THEN Raised("ValueError")
         ELSE Returned(Lambda("u + r", int(Tail(s)), <<>>))
    ELSE Returned(Lambda("int(s)", 0, s))

\* (variant of call: the zero term gives 0 whatever u is)
call_zero(f, u, z) ==
    IF f.form = "0 + r" THEN Returned(<<0 + f.r>>)
    ELSE IF f.form = "0 if u is None else z" THEN Returned(<<0>>)
    ELSE IF f.form = "z + r"
    THEN IF z = NoneInt THEN Raised("TypeError") ELSE Returned(<<z[1] + f.r>>)
    ELSE IF f.form = "u + r"
    THEN IF u = NoneInt THEN Raised("TypeError") ELSE Returned(<<u[1] + f.r>>)
    ELSE IF IntOK(f.s) THEN Returned(<<int(f.s)>>) ELSE Raised("ValueError")

\* the call f(u, z) of a lambda of _parseNRS
call(f, u, z) ==
    IF f.form = "0 + r" THEN Returned(<<0 + f.r>>)
    ELSE IF f.form = "0 if u is None else z"
    THEN IF u = NoneInt THEN Returned(<<0>>) ELSE Returned(z)
    ELSE IF f.form = "z + r"
    THEN IF z = NoneInt THEN Raised("TypeError") ELSE Returned(<<z[1] + f.r>>)
    ELSE IF f.form = "u + r"
    THEN IF u = NoneInt THEN Raised("TypeError") ELSE Returned(<<u[1] + f.r>>)
    ELSE IF IntOK(f.s) THEN Returned(<<int(f.s)>>) ELSE Raised("ValueError")

\* argtuple(s, dflt, n=n, type=_parseNRS) with the single separator ','
argtuple(s, dflt, n) ==
    LET a == IF s # <<>> THEN split(s, ",") ELSE <<>>
        alen == Len(a)
    IN  IF alen > n THEN Raised("ValueError")
        ELSE LET filled == a \o [j \in 1..(n - alen) |-> dflt]
                 mapped == [j \in 1..n |-> _parseNRS(filled[j])]
             IN  IF FirstError(mapped) # "" THEN Raised(FirstError(mapped))
                 ELSE Returned([j \in 1..n |-> mapped[j].val])

\* the number of coordinates of a crop
CropFields == 4

cropargv(s) == argtuple(s, <<"+", "0">>, CropFields)

\* the image files that exist, with their sizes
ImageFiles == [f \in {"pic"} |-> <<30, 20>>]

\* an Image object of the given size, and an image given by its name
ImageOf(size) == <<"Image", size[1], size[2]>>

Named(f) == <<"name", f>>

\* (variant of computecrop: a file that is not found is not caught)
computecrop_nocatch(cs, im) ==
    IF im # NoImage /\ im[1] = "name" /\ im[2] \notin DOMAIN ImageFiles
    THEN Raised("FileNotFoundError")
    ELSE LET sz == IF im = NoImage THEN <<NoneInt, NoneInt>>
                   ELSE IF im[1] = "Image" THEN <<<<im[2]>>, <<im[3]>>>>
                   ELSE <<<<ImageFiles[im[2]][1]>>, <<ImageFiles[im[2]][2]>>>>
             c0 == call(cs[1], NoneInt, sz[1])
             c1 == call(cs[2], NoneInt, sz[2])
             c2 == call(cs[3], c0.val, sz[1])
             c3 == call(cs[4], c1.val, sz[2])
         IN  IF c0.err # "" THEN Raised(c0.err)
             ELSE IF c1.err # "" THEN Raised(c1.err)
             ELSE IF c2.err # "" THEN Raised(c2.err)
             ELSE IF c3.err # "" THEN Raised(c3.err)
             ELSE Returned(<<c0.val, c1.val, c2.val, c3.val>>)

\* computecrop(cspec, img)
RECURSIVE computecrop(_, _)
computecrop(cs, im) ==
    IF im # NoImage /\ im[1] = "name"
    THEN IF im[2] \in DOMAIN ImageFiles
         THEN computecrop(cs, ImageOf(ImageFiles[im[2]]))
         ELSE computecrop(cs, NoImage)
    ELSE LET sz == IF im = NoImage THEN <<NoneInt, NoneInt>>
                   ELSE <<<<im[2]>>, <<im[3]>>>>
             c0 == call(cs[1], NoneInt, sz[1])
             c1 == call(cs[2], NoneInt, sz[2])
             c2 == call(cs[3], c0.val, sz[1])
             c3 == call(cs[4], c1.val, sz[2])
         IN  IF c0.err # "" THEN Raised(c0.err)
             ELSE IF c1.err # "" THEN Raised(c1.err)
             ELSE IF c2.err # "" THEN Raised(c2.err)
             ELSE IF c3.err # "" THEN Raised(c3.err)
             ELSE Returned(<<c0.val, c1.val, c2.val, c3.val>>)

----------------------------------------------------------------------------
(* The crop strings and the images of the model *)

MaxTokens == 5

\* a token is drawn as the whitespace around it, a prefix, a sign, a
\* number (-1: no digit) and the characters that follow the digits
Token(pad, pre, sign, num, junk) ==
    [pad |-> pad, pre |-> pre, sign |-> sign, num |-> num, junk |-> junk]

\* 7  0  +3  ' R+12 '  -2  r-2  R0  -0  S4  ''  '  '  RR  1x
Tokens ==
    {Token(<<>>, <<>>, <<>>, 7, <<>>),
     Token(<<>>, <<>>, <<>>, 0, <<>>),
     Token(<<>>, <<>>, <<"+">>, 3, <<>>),
     Token(<<" ">>, <<"R">>, <<"+">>, 12, <<>>),
     Token(<<>>, <<>>, <<"-">>, 2, <<>>),
     Token(<<>>, <<"r">>, <<"-">>, 2, <<>>),
     Token(<<>>, <<"R">>, <<>>, 0, <<>>),
     Token(<<>>, <<>>, <<"-">>, 0, <<>>),
     Token(<<>>, <<"S">>, <<>>, 4, <<>>),
     Token(<<>>, <<>>, <<>>, -1, <<>>),
     Token(<<" ">>, <<>>, <<>>, -1, <<>>),
     Token(<<>>, <<"R">>, <<>>, -1, <<"R">>),
     Token(<<>>, <<>>, <<>>, 1, <<"x">>)}

\* the tokens of the strings that have too many of them
PlainTokens ==
    {Token(<<>>, <<>>, <<>>, 7, <<>>), Token(<<>>, <<"R">>, <<>>, 0, <<>>)}

\* the decimal digits of n >= 0
RECURSIVE Decimal(_)
Decimal(n) ==
    IF n < 10 THEN <<Digit[n + 1]>>
    ELSE Decimal(n \div 10) \o <<Digit[(n % 10) + 1]>>

\* the text of a token
Text(tok) ==
    tok.pad \o tok.pre \o tok.sign
        \o (IF tok.num < 0 THEN <<>> ELSE Decimal(tok.num))
        \o tok.junk \o tok.pad

\* the tokens joined by commas
RECURSIVE Join(_)
Join(tl) ==
    IF tl = <<>> THEN <<>>
    ELSE IF Len(tl) = 1 THEN Text(tl[1])
    ELSE Text(tl[1]) \o <<",">> \o Join(Tail(tl))

\* the token lists of the crop strings: up to four tokens of any kind (the
\* empty string is the string of no token), and more than four plain ones
TokenLists ==
    {tl \in UNION {[1..m -> Tokens] : m \in 0..CropFields} :
        Join(tl) = <<>> => tl = <<>>}
      \cup UNION {[1..m -> PlainTokens] : m \in (CropFields + 1)..MaxTokens}

\* the sizes of the images
Sizes == {<<120, 160>>, <<30, 20>>}

\* no image, an Image object, the name of no file, the name of an image file
Images == {NoImage, ImageOf(<<120, 160>>), Named(DN[1]), Named("pic")}

\* the crop string s
s == Join(toks)

----------------------------------------------------------------------------
(* CropSpec: computecrop(cropargv(s), img) *)

GeneratorIdle ==
    /\ names = <<>>
    /\ pans = <<>>
    /\ px = <<>>
    /\ pc = "idle"
    /\ fnum = 0
    /\ p = NoPan
    /\ reps = 0
    /\ curbox = Unbound
    /\ deltas = Unbound
    /\ k = 0
    /\ next_at = -1
    /\ nf = 0
    /\ out = <<>>
    /\ err = ""
    /\ armed = <<>>
    /\ settled = <<>>

gvars == <<names, pans, px, pc, fnum, p, reps, curbox, deltas, k,
           next_at, nf, out, err, armed, settled>>

CropInit ==
    /\ toks \in TokenLists
    /\ img \in Images
    /\ cspec = Unbound
    /\ crop = Unbound
    /\ cerr = ""
    /\ cpc = "cropargv"
    /\ GeneratorIdle
    /\ LoaderIdle

\* cspec = cropargv(s)
CallCropargv ==
    /\ cpc = "cropargv"
    /\ LET r == cropargv(s) IN
       IF r.err # ""
       THEN /\ cerr' = r.err
            /\ cpc' = "error"
            /\ UNCHANGED cspec
       ELSE /\ cspec' = r.val
            /\ cpc' = "computecrop"
            /\ UNCHANGED cerr
    /\ UNCHANGED <<toks, img, crop>>
    /\ UNCHANGED <<gvars, lvars>>

\* crop = computecrop(cspec, img)
CallComputecrop ==
    /\ cpc = "computecrop"
    /\ LET r == computecrop(cspec, img) IN
       IF r.err # ""
       THEN /\ cerr' = r.err
            /\ cpc' = "error"
            /\ UNCHANGED crop
       ELSE /\ crop' = r.val
            /\ cpc' = "done"
            /\ UNCHANGED cerr
    /\ UNCHANGED <<toks, img, cspec>>
    /\ UNCHANGED <<gvars, lvars>>

CropNext ==
    \/ CallCropargv
    \/ CallComputecrop

CropSpec == CropInit /\ [][CropNext]_vars

----------------------------------------------------------------------------
(* The crop strings as the grammar reads them *)

\* what follows the prefix of the token is a valid integer
WellFormed(tok) == tok.num >= 0 /\ tok.junk = <<>>

\* the kind of a well-formed token
Kind(tok) ==
    IF tok.pre \in {<<"S">>, <<"s">>} THEN "size-offset"
    ELSE IF tok.pre = <<>> /\ tok.sign = <<>> THEN "absolute"
    ELSE IF tok.num = 0 THEN "zero-sentinel"
    ELSE IF tok.sign = <<"-">> THEN "relative-to-extent"
    ELSE "relative-to-origin"

\* the i-th token of the crop string, +0 when it is missing
Filled(i) ==
    IF i <= Len(toks) THEN toks[i] ELSE Token(<<>>, <<>>, <<"+">>, 0, <<>>)

\* at most four tokens, all well-formed, sizes in second position only
WellFormedCrop ==
    /\ Len(toks) <= CropFields
    /\ \A i \in 1..Len(toks) :
          /\ WellFormed(toks[i])
          /\ Kind(toks[i]) = "size-offset" => i \in {3, 4}

\* the coordinate a well-formed token stands for, in first position
\* (anchor = NoneInt) or in second position after the coordinate anchor[1]
RefCoord(tok, anchor, extent) ==
    IF Kind(tok) \in {"absolute", "relative-to-origin"} THEN tok.num
    ELSE IF Kind(tok) = "relative-to-extent" THEN extent - tok.num
    ELSE IF Kind(tok) = "zero-sentinel"
    THEN IF anchor = NoneInt THEN 0 ELSE extent
    ELSE anchor[1] + tok.num

\* the reference box of the crop string against an image of size <<w, h>>
RefBox(size) ==
    LET x1 == RefCoord(Filled(1), NoneInt, size[1])
        y1 == RefCoord(Filled(2), NoneInt, size[2])
    IN  <<x1, y1,
          RefCoord(Filled(3), <<x1>>, size[1]),
          RefCoord(Filled(4), <<y1>>, size[2])>>

\* the size of the image, <<>> when there is none
SizeOf(im) ==
    IF im = NoImage THEN <<>>
    ELSE IF im[1] = "Image" THEN <<im[2], im[3]>>
    ELSE IF im[2] \in DOMAIN ImageFiles THEN ImageFiles[im[2]]
    ELSE <<>>

\* a box of integers as computecrop returns it
Coords(b) == [i \in i4 |-> <<b[i]>>]

\* img is a name and no file has it
Missing == img # NoImage /\ img[1] = "name" /\ SizeOf(img) = <<>>

----------------------------------------------------------------------------
(* C12 *)

\* C12: for a crop string of at most four well-formed tokens and an image
\* with a size, cropargv and computecrop raise nothing and the crop is the
\* reference box: the literal of a plain integer, N for +N and R+N, the
\* extent minus N for -N and R-N, 0 then the extent for a zero with a
\* prefix, the first coordinate plus N for S<N>, +0 for a missing token.
C12_CropResolution ==
    (WellFormedCrop /\ SizeOf(img) # <<>>) =>
        /\ cpc # "error"
        /\ cpc = "done" => crop = Coords(RefBox(SizeOf(img)))

\* a string of three tokens, a padded R+N, an R-N and an S<N>, resolved
\* against an image file
C12_Witness ==
    /\ cpc = "done"
    /\ img = Named("pic")
    /\ Len(toks) = 3
    /\ toks[1].pad # <<>> /\ Kind(toks[1]) = "relative-to-origin"
    /\ Kind(toks[2]) = "relative-to-extent"
    /\ Kind(toks[3]) = "size-offset"
    /\ crop = <<<<12>>, <<18>>, <<16>>, <<20>>>>

----------------------------------------------------------------------------
(* C13 *)

\* the crop string has more than four tokens, or a token whose text after
\* the prefix is not a valid integer
Malformed ==
    \/ Len(toks) > CropFields
    \/ \E i \in 1..Len(toks) : ~WellFormed(toks[i])

\* C13: for a malformed crop string cropargv raises ValueError: it returns
\* no terms and raises no other exception.
C13_MalformedRejected ==
    (Malformed /\ cpc # "cropargv") =>
        /\ cspec = Unbound
        /\ cpc = "error"
        /\ cerr = "ValueError"

\* a malformed crop string is never resolved to a box: cropargv or
\* computecrop raises IndexError, ValueError or TypeError
C13_NeverResolved ==
    Malformed =>
        /\ cpc # "done"
        /\ cpc = "error" => cerr \in {"IndexError", "ValueError", "TypeError"}

----------------------------------------------------------------------------
(* C14 *)

\* the i-th term of a well-formed crop string needs the extent of its axis
NeedsExtent(i) ==
    \/ Kind(Filled(i)) = "relative-to-extent"
    \/ Kind(Filled(i)) = "zero-sentinel" /\ i \in {3, 4}

\* C14: when the image is the name of a missing file and a term of a
\* well-formed crop string needs the extent, computecrop raises instead of
\* returning; and no crop returned has a None coordinate.
C14_NoExtentFails ==
    /\ (WellFormedCrop /\ Missing
        /\ \E i \in i4 : NeedsExtent(i)) => cpc # "done"
    /\ cpc = "done" => \A i \in i4 : crop[i] # NoneInt

\* without a size, a relative-to-extent term raises TypeError
C14_RelativeFails ==
    (WellFormedCrop /\ SizeOf(img) = <<>> /\ cpc \in {"done", "error"}
     /\ \E i \in i4 : Kind(Filled(i)) = "relative-to-extent") =>
        cpc = "error" /\ cerr = "TypeError"

----------------------------------------------------------------------------
(* C15 *)

\* four well-formed terms, each absolute, relative to the origin or, in
\* second position, a size offset
ExtentFree ==
    /\ WellFormedCrop
    /\ Len(toks) = CropFields
    /\ \A i \in i4 :
          Kind(toks[i]) \in {"absolute", "relative-to-origin", "size-offset"}

\* C15: computecrop never raises FileNotFoundError; with the name of a
\* missing file it ends as computecrop(cspec, None) does, with the same crop
\* or the same exception; and for terms that are absolute, relative to the
\* origin or size offsets it returns the reference box, which is the same
\* against an image of any size.
C15_MissingFile ==
    /\ cerr # "FileNotFoundError"
    /\ (Missing /\ cspec # Unbound /\ cpc \in {"done", "error"}) =>
           LET r == computecrop(cspec, NoImage) IN
           IF r.err = "" THEN cpc = "done" /\ crop = r.val
           ELSE cpc = "error" /\ cerr = r.err
    /\ (Missing /\ ExtentFree /\ cpc # "cropargv") =>
           /\ cpc # "error"
           /\ cpc = "done" =>
                  \A size \in Sizes : crop = Coords(RefBox(size))

\* a crop of absolute, relative-to-origin and size-offset terms resolved
\* against the name of a missing file
C15_Witness ==
    /\ cpc = "done"
    /\ Missing
    /\ ExtentFree
    /\ \E i, j \in i4 : /\ Kind(toks[i]) = "relative-to-origin"
                        /\ Kind(toks[j]) = "size-offset"

----------------------------------------------------------------------------
(* The loader: _pjson_gen and gen_panspecs *)

\* a str where a crop is expected
Str(t) == <<"str", t>>

\* isinstance(cs, str) of the value of a crop field
isinstance_str(cs) == Len(cs) = 2 /\ cs[1] = "str"

\* a box of a JSON text: its coordinates are integers
JBox(b) == [i \in i4 |-> <<b[i]>>]

\* the decoded form of a JSON list and of a JSON object
JList(maps) == <<"list", maps>>

JObject(map) == <<"dict", map>>

\* The decoder of the json library is not part of the repository: a JSON
\* text is written as the value it decodes to.  A source is such a text,
\* the name of a file that holds one, or neither.
JSONText(j) == <<"json", j>>

FileOf(j) == <<"file", j>>

NotJSON == <<"no file, no json">>

\* open(s, 'r') and f.read()
open_read(src) ==
    IF src # NotJSON /\ src[1] = "file" THEN Returned(JSONText(src[2]))
    ELSE Raised("FileNotFoundError")

\* json.loads(s)
json_loads(text) ==
    IF text # NotJSON THEN Returned(text[2]) ELSE Raised("JSONDecodeError")

\* _pjson_gen(s): the dicts it yields, as a list
_pjson_gen(src) ==
    LET f == open_read(src)
        text == IF f.err = "FileNotFoundError" THEN src ELSE f.val
        j == json_loads(text)
    IN  IF j.err # "" THEN j
        ELSE IF j.val[1] = "list" THEN Returned(j.val[2])
        ELSE Returned(<<j.val[2]>>)

\* the image a field of a dict names
AsImage(x) == IF x = None THEN NoImage ELSE Named(x)

\* one pass of the inner loop of gen_panspecs: the crop field, when it is
\* a str, is replaced by the crop computed against the named image
ResolveField(pdict, cropkey, namekey) ==
    IF cropkey \notin DOMAIN pdict THEN Returned(pdict)
    ELSE IF ~isinstance_str(pdict[cropkey]) THEN Returned(pdict)
    ELSE LET a == cropargv(pdict[cropkey][2]) IN
         IF a.err # "" THEN Raised(a.err)
         ELSE IF namekey \notin DOMAIN pdict THEN Raised("KeyError")
         ELSE LET b == computecrop(a.val, AsImage(pdict[namekey])) IN
              IF b.err # "" THEN Raised(b.err)
              ELSE Returned([pdict EXCEPT ![cropkey] = b.val])

\* both passes of the inner loop
ResolveCrops(pdict) ==
    LET r0 == ResolveField(pdict, "crop0", "image0")
    IN  IF r0.err # "" THEN r0
        ELSE ResolveField(r0.val, "crop1", "image1")

\* PanSpec(**pdict)
PanSpecKw(pdict) ==
    IF "image0" \notin DOMAIN pdict \/ "crop0" \notin DOMAIN pdict
    THEN Raised("TypeError")
    ELSE Returned(PanSpec(
             pdict["image0"], pdict["crop0"],
             IF "image1" \in DOMAIN pdict THEN pdict["image1"] ELSE None,
             IF "crop1" \in DOMAIN pdict THEN pdict["crop1"] ELSE NoneCrop,
             IF "n" \in DOMAIN pdict THEN pdict["n"] ELSE 1))

\* the yield of gen_panspecs for what the inner loop made of a dict,
\* unless the inner loop raised
YieldOf(r) == IF r.err # "" THEN r ELSE PanSpecKw(r.val)

\* the body of the outer loop of gen_panspecs for one dict
LoadOne(pdict) == YieldOf(ResolveCrops(pdict))

----------------------------------------------------------------------------
(* The sources of the model *)

MaxMaps == 2

\* the dict without keys
NoField == [key \in {} |-> None]

\* the ways to give a field: absent when optional, or one of the values
Field(key, optional, values) ==
    {key :> v : v \in values} \cup (IF optional THEN {NoField} ELSE {})

\* "0,1,2,3"  "RR"  "+1,+1,R0,S5"
crop_0123 == <<"0", ",", "1", ",", "2", ",", "3">>

crop_RR == <<"R", "R">>

crop_S5 == <<"+", "1", ",", "+", "1", ",", "R", "0", ",", "S", "5">>

FieldMaps ==
    {i0 @@ c0 @@ i1 @@ c1 @@ n :
        i0 \in Field("image0", FALSE, {DN[1]}),
        c0 \in Field("crop0", FALSE,
                     {NoneCrop, JBox(crop_A), Str(crop_0123), Str(crop_RR)}),
        i1 \in Field("image1", TRUE, {None, "", "pic"}),
        c1 \in Field("crop1", TRUE,
                     {NoneCrop, <<>>, JBox(crop_B), Str(crop_S5)}),
        n \in Field("n", TRUE, {MaxN})}

Documents ==
    {JObject(m) : m \in FieldMaps}
        \cup {JList(l) : l \in UNION {[1..m -> FieldMaps] : m \in 0..MaxMaps}}

Sources ==
    {JSONText(j) : j \in Documents} \cup {FileOf(j) : j \in Documents}
        \cup {NotJSON}

----------------------------------------------------------------------------
(* LoaderSpec: gen_panspecs(s) *)

LoaderInit ==
    /\ source \in Sources
    /\ todo = <<>>
    /\ yielded = <<>>
    /\ lerr = ""
    /\ lpc = "start"
    /\ GeneratorIdle
    /\ CropIdle

\* first next(): _pjson_gen opens, reads and decodes the source
Decode ==
    /\ lpc = "start"
    /\ LET r == _pjson_gen(source) IN
       IF r.err # ""
       THEN /\ lerr' = r.err
            /\ lpc' = "error"
            /\ UNCHANGED todo
       ELSE /\ todo' = r.val
            /\ lpc' = "for"
            /\ UNCHANGED lerr
    /\ UNCHANGED <<source, yielded>>
    /\ UNCHANGED <<gvars, cvars>>

\* the body of  for pdict in _pjson_gen(s)
Yield ==
    /\ lpc = "for"
    /\ todo # <<>>
    /\ \E ps \in {LoadOne(Head(todo))} :
           IF ps.err # ""
           THEN /\ lerr' = ps.err
                /\ lpc' = "error"
                /\ UNCHANGED <<todo, yielded>>
           ELSE /\ yielded' = Append(yielded, ps.val)
                /\ todo' = Tail(todo)
                /\ UNCHANGED <<lerr, lpc>>
    /\ UNCHANGED source
    /\ UNCHANGED <<gvars, cvars>>

\* _pjson_gen is exhausted
Exhausted ==
    /\ lpc = "for"
    /\ todo = <<>>
    /\ lpc' = "done"
    /\ UNCHANGED <<source, todo, yielded, lerr>>
    /\ UNCHANGED <<gvars, cvars>>

LoaderNext ==
    \/ Decode
    \/ Yield
    \/ Exhausted

LoaderSpec == LoaderInit /\ [][LoaderNext]_vars

----------------------------------------------------------------------------
(* C16 *)

\* the field maps the source decodes to, in source order
Maps ==
    IF source = NotJSON THEN <<>>
    ELSE IF source[2][1] = "list" THEN source[2][2]
    ELSE <<source[2][2]>>

\* the image a crop field is resolved against: its sibling, if given
Sibling(m, namekey) ==
    IF namekey \in DOMAIN m THEN AsImage(m[namekey]) ELSE NoImage

\* the value of a crop field of the map m as the loader is to pass it on
PassedCrop(m, cropkey, namekey) ==
    IF isinstance_str(m[cropkey])
    THEN computecrop(cropargv(m[cropkey][2]).val, Sibling(m, namekey)).val
    ELSE m[cropkey]

\* every crop of the map m given as a string is parsed and resolved
\* without an exception
Resolvable(m) ==
    \A c \in {<<"crop0", "image0">>, <<"crop1", "image1">>} :
        (c[1] \in DOMAIN m /\ isinstance_str(m[c[1]])) =>
            /\ cropargv(m[c[1]][2]).err = ""
            /\ computecrop(cropargv(m[c[1]][2]).val,
                           Sibling(m, c[2])).err = ""

\* the PanSpec of the map m: string crops resolved, the rest passed on,
\* absent fields left to the defaults of PanSpec
Loaded(m) ==
    PanSpec(m["image0"],
            PassedCrop(m, "crop0", "image0"),
            IF "image1" \in DOMAIN m THEN m["image1"] ELSE None,
            IF "crop1" \in DOMAIN m
            THEN PassedCrop(m, "crop1", "image1") ELSE NoneCrop,
            IF "n" \in DOMAIN m THEN m["n"] ELSE 1)

\* C16: gen_panspecs yields the PanSpecs of the field maps of the source,
\* one per map and in source order, for an object and for a list, given as
\* text or as a file: string crops replaced by the box resolved against
\* the sibling image, boxes and null passed on, absent fields defaulted by
\* PanSpec; it raises only for a source that is not JSON or at a map with
\* a crop string that cannot be resolved.
C16_Loader ==
    /\ Len(yielded) <= Len(Maps)
    /\ \A i \in 1..Len(yielded) : yielded[i] = Loaded(Maps[i])
    /\ lpc = "for" => todo = SubSeq(Maps, Len(yielded) + 1, Len(Maps))
    /\ lpc = "done" => Len(yielded) = Len(Maps)
    /\ lpc = "error" =>
           \/ source = NotJSON
           \/ /\ Len(yielded) < Len(Maps)
              /\ ~Resolvable(Maps[Len(yielded) + 1])

\* every crop string of the source has its sibling image field
SiblingsGiven ==
    \A i \in 1..Len(Maps) :
        ("crop1" \in DOMAIN Maps[i] /\ isinstance_str(Maps[i]["crop1"])) =>
            "image1" \in DOMAIN Maps[i]

\* C16 holds of the sources whose crop strings all have a sibling image
C16_SiblingsGiven == SiblingsGiven => C16_Loader

----------------------------------------------------------------------------
(* C17 *)

\* the arguments PanSpec was called with for the i-th PanSpec yielded
Args(i) == ResolveCrops(Maps[i]).val

\* C17: in every PanSpec constructed, image0, crop0 and n are the ones
\* supplied (n = 1 when omitted), image1 is image0 exactly when image1 is
\* omitted or None, crop1 is crop0 exactly when crop1 is omitted or None,
\* and any other value supplied, the empty name and the empty box
\* included, is kept.
C17_DefaultsOnNone ==
    \A i \in 1..Len(yielded) :
        LET a == Args(i)
            y == yielded[i]
        IN  /\ y.image0 = a["image0"]
            /\ y.crop0 = a["crop0"]
            /\ y.n = IF "n" \in DOMAIN a THEN a["n"] ELSE 1
            /\ y.image1 = IF "image1" \in DOMAIN a /\ a["image1"] # None
                          THEN a["image1"] ELSE a["image0"]
            /\ y.crop1 = IF "crop1" \in DOMAIN a /\ a["crop1"] # NoneCrop
                         THEN a["crop1"] ELSE a["crop0"]

\* no empty name and no empty box is supplied
NoFalsy ==
    \A i \in 1..Len(Maps) :
        /\ "image1" \in DOMAIN Maps[i] => Maps[i]["image1"] # ""
        /\ "crop1" \in DOMAIN Maps[i] => Maps[i]["crop1"] # <<>>

\* C17 holds of the sources without an empty name or an empty box
C17_NoFalsy == NoFalsy => C17_DefaultsOnNone

----------------------------------------------------------------------------
(* C18 *)

\* the greatest integer not above the rational x
Floor(x) == x[1] \div x[2]

\* a frame is emitted in this step
Emits == Len(out') = Len(out) + 1

\* C18: every coordinate of a frame emitted is floor(v + 1/2) of the
\* running value v, whatever its sign, and the running box moves on from
\* v by the deltas, not from the rounded value.
C18_RoundHalfUp ==
    [][Emits =>
          /\ \A i \in i4 :
                out'[Len(out')].box[i] = Floor(RAdd(curbox[i], <<1, 2>>))
          /\ curbox' = [i \in i4 |-> RAdd(curbox[i], deltas[i])]]_vars

\* C18 holds of the running values v >= -1/2
C18_FromMinusHalf ==
    [][Emits =>
          /\ \A i \in i4 :
                2 * curbox[i][1] >= -curbox[i][2] =>
                    out'[Len(out')].box[i]
                        = Floor(RAdd(curbox[i], <<1, 2>>))
          /\ curbox' = [i \in i4 |-> RAdd(curbox[i], deltas[i])]]_vars

----------------------------------------------------------------------------
(* C19 *)

\* the first occurrence of the image1 of the t-th armed waypoint at or
\* after the image it was armed at, -1 if none
TargetAt(t) == FirstFrom(names, armed[t].w.image1, armed[t].at)

\* the t-th armed waypoint repeats, its image1 comes after its image0 and
\* no other waypoint is armed up to and including image1
Repeating(t) ==
    /\ armed[t].w.n > 1
    /\ TargetAt(t) > armed[t].at
    /\ t < Len(armed) => armed[t + 1].at > TargetAt(t)

\* the frame at which image j >= a starts when every image from a to b
\* takes n frames and every image after b one frame
FrameOf(t, j) ==
    LET a == armed[t].at
        b == TargetAt(t)
    IN  armed[t].frame + (Min(j, b + 1) - a) * armed[t].w.n
                       + (IF j > b + 1 THEN j - (b + 1) ELSE 0)

\* the images from index EndOf(t) on are not, or not yet, iterated under
\* the t-th armed waypoint
EndOf(t) == IF t < Len(armed) THEN armed[t + 1].at ELSE fnum

\* C19: under a waypoint armed at a with n > 1 whose image1 is at b > a, no
\* other waypoint being armed from a+1 to b, every image from a to b has
\* exactly n frames in a row, (b-a+1)*n in all, and every image after b
\* exactly one, until another waypoint is armed.
C19_SegmentRepeats ==
    \A t \in 1..Len(armed) :
        Repeating(t) =>
            /\ \A j \in armed[t].at..(EndOf(t) - 1) :
                   \A f \in FrameOf(t, j)..(FrameOf(t, j + 1) - 1) :
                       f <= Len(out) /\ out[f].name = names[j + 1]
            /\ t < Len(armed) => armed[t + 1].frame = FrameOf(t, EndOf(t))
            /\ (t = Len(armed) /\ pc \in {"head", "done"}) =>
                   Len(out) = FrameOf(t, fnum) - 1
            /\ FrameOf(t, TargetAt(t) + 1) - armed[t].frame
                   = (TargetAt(t) - armed[t].at + 1) * armed[t].w.n

\* a finished run with a repeating waypoint over two images and an image
\* after them
C19_Witness ==
    /\ pc = "done"
    /\ \E t \in 1..Len(armed) :
          /\ Repeating(t)
          /\ t = Len(armed)
          /\ TargetAt(t) < Len(names) - 1

----------------------------------------------------------------------------
(* C20 *)

\* the waypoints popped from the working list
Popped == Len(Normalised) - Len(px)

\* the image from which the t-th waypoint of the list is the head
HeadFrom(t) == IF t = 1 THEN 0 ELSE armed[t - 1].at + 1

\* the images tested against the head of the working list so far
Tested == IF pc = "emit" THEN fnum + 1 ELSE fnum

\* C20: the waypoints armed are the first ones of the working list, in list
\* order, each at the first image at or after the one it became the head
\* at that equals its image0 (so at most one per image); the working list
\* is the rest of the list, and the head is a waypoint whose image0 has not
\* occurred since it became the head: when that never happens neither it
\* nor any waypoint after it is armed.
C20_ListOrder ==
    (pc \in {"head", "emit", "done"} \/ (pc = "error" /\ px # <<>>)) =>
        /\ px = SubSeq(Normalised, Popped + 1, Len(Normalised))
        /\ Popped \in {Len(armed), Len(armed) + 1}
        /\ Popped = Len(armed) + 1 => pc = "error"
        /\ \A t \in 1..Len(armed) :
               /\ armed[t].w = Normalised[t]
               /\ armed[t].at
                      = FirstFrom(names, Normalised[t].image0, HeadFrom(t))
        /\ (Popped = Len(armed) /\ Popped < Len(Normalised)) =>
               \A j \in HeadFrom(Popped + 1)..(Tested - 1) :
                   names[j + 1] # px[1].image0
        /\ pc = "done" => Tested = Len(names)

\* a finished run in which a waypoint whose image0 is not among the images
\* was never armed, and the waypoint after it was not armed either although
\* its image0 came by
C20_Witness ==
    /\ pc = "done"
    /\ Len(px) = 3
    /\ ~Has(names, px[1].image0)
    /\ FirstFrom(names, px[2].image0, HeadFrom(Popped + 1)) # -1

----------------------------------------------------------------------------
(* C21 *)

\* the walk over the images has been entered
Walking == pc \in {"head", "emit", "done"} \/ (pc = "error" /\ px # <<>>)

\* the closing waypoint expand_pans appends to the waypoints given
Closing == PanSpec(None, pans[Len(pans)].crop1, None, NoneCrop, 1)

\* C21: no image name being None, the working list is never empty during
\* the walk: its last element is the closing waypoint, which is neither
\* armed nor the active waypoint at any time, and no step of the walk fails
\* on an empty list; once only the closing waypoint is left the active
\* waypoint is the last one given, until the images are exhausted.
C21_ClosingKept ==
    (Walking /\ \A j \in 1..Len(names) : names[j] # None) =>
        /\ px # <<>>
        /\ px[Len(px)] = Closing
        /\ \A j \in 1..(Len(px) - 1) : px[j].image0 # None
        /\ \A t \in 1..Len(armed) : armed[t].w.image0 # None
        /\ p # Closing
        /\ err # "IndexError"
        /\ (Len(px) = 1 /\ pc # "error") =>
               /\ p = pans[Len(pans)]
               /\ armed[Len(armed)].w = pans[Len(pans)]

\* a finished run in which every waypoint given was consumed before the
\* last image: only the closing waypoint is left
C21_Witness ==
    /\ pc = "done"
    /\ px = <<Closing>>
    /\ Len(pans) = MaxPans
    /\ armed[Len(armed)].at < Len(names) - 1
    /\ out[Len(out)].name = names[Len(names)]

====
